---- MODULE Spec2Model ----
(***************************************************************************)
(* LogMelSpectrogramNp (ecoacoustics/transforms/logmelspectrogram.py):     *)
(* the constructor, frame, periodic_hann, stft_magnitude, hertz_to_mel,    *)
(* spectrogram_to_mel_matrix and forward, as a state machine.              *)
(*                                                                         *)
(* Numbers.  Sample counts, window/hop lengths and bin counts are          *)
(* integers.  Real quantities are exact rationals <<n, d>> with d > 0,     *)
(* except the two transcendental functions: the natural logarithm is a     *)
(* fixed-point computation (LnFix, in units of 1 / LnOne) and the square   *)
(* root of np.abs is rounded down to units of 1 / (4 * MagOne).  The       *)
(* cosine of periodic_hann and the FFT twiddle factors are exact for the   *)
(* window lengths 1, 2, 3, 4 and the FFT lengths 1, 2, 4, which are the    *)
(* ones the forward specification constructs.                              *)
(***************************************************************************)
EXTENDS Integers, Sequences, FiniteSets, TLC

VARIABLES
    self,   \* the fields of the LogMelSpectrogramNp instance, or NoTransform
    data,   \* the samples of the input waveform (the tensor's memory)
    call,   \* per forward call: its position and its local variables
    melcall \* a direct call of spectrogram_to_mel_matrix: arguments, outcome

vars == <<self, data, call, melcall>>

(***************************************************************************)
(* Bounds of the model.                                                    *)
(***************************************************************************)
MaxSamples == 4

(***************************************************************************)
(* Arithmetic.                                                             *)
(***************************************************************************)
Max(a, b) == IF a >= b THEN a ELSE b

Min(a, b) == IF a <= b THEN a ELSE b

Abs(a) == IF a < 0 THEN -a ELSE a

RECURSIVE SumTo(_, _)
\* f[1] + ... + f[n]
SumTo(f, n) == IF n = 0 THEN 0 ELSE f[n] + SumTo(f, n - 1)

\* Python's round() of the rational n/d (d > 0): to nearest, ties to even.
RoundHalfEven(n, d) ==
    LET q == n \div d
        r == n % d
    IN  IF 2 * r < d THEN q
        ELSE IF 2 * r > d THEN q + 1
        ELSE IF q % 2 = 0 THEN q ELSE q + 1

RECURSIVE ISqrtFrom(_, _)
ISqrtFrom(n, r) == IF (r + 1) * (r + 1) > n THEN r ELSE ISqrtFrom(n, r + 1)

\* floor(sqrt(n)), n >= 0
ISqrt(n) == ISqrtFrom(n, 0)

(***************************************************************************)
(* np.log.  Fixed point: ln(p/q) for integers p, q > 0, in units of        *)
(* 1/LnOne.  log2 is computed bit by bit (exponent, then 10 fraction bits  *)
(* by repeated squaring of a 14-bit mantissa) and multiplied by            *)
(* ln 2 = 710/1024.                                                        *)
(***************************************************************************)
LnOne == 2 ^ 10

MantOne == 2 ^ 14

RECURSIVE Log2Floor(_, _)
\* floor(log2(p/q))
Log2Floor(p, q) ==
    IF p >= 2 * q THEN Log2Floor(p, 2 * q) + 1
    ELSE IF p < q THEN Log2Floor(2 * p, q) - 1
    ELSE 0

RECURSIVE FracDiv(_, _, _, _)
\* the mantissa of x/y in [1, 2): acc.(rem/y) extended by n bits
FracDiv(rem, y, n, acc) ==
    IF n = 0 THEN acc
    ELSE IF 2 * rem >= y THEN FracDiv(2 * rem - y, y, n - 1, 2 * acc + 1)
    ELSE FracDiv(2 * rem, y, n - 1, 2 * acc)

RECURSIVE Log2Frac(_, _, _)
\* the first n fraction bits of log2(m/MantOne), m/MantOne in [1, 2)
Log2Frac(m, n, acc) ==
    IF n = 0 THEN acc
    ELSE LET sq == (m * m) \div MantOne
         IN  IF sq >= 2 * MantOne
             THEN Log2Frac(sq \div 2, n - 1, 2 * acc + 1)
             ELSE Log2Frac(sq, n - 1, 2 * acc)

Log2Fix(p, q) ==
    LET e == Log2Floor(p, q)
        x == IF e >= 0 THEN p ELSE p * 2 ^ (-e)
        y == IF e >= 0 THEN q * 2 ^ e ELSE q
    IN  e * LnOne + Log2Frac(FracDiv(x - y, y, 14, 1), 10, 0)

LnFix(p, q) == (Log2Fix(p, q) * 710) \div LnOne

\* np.log of the rational x: a fixed-point value, or what numpy returns
\* (with a RuntimeWarning) outside the domain.
np_log(x) ==
    IF x[1] < 0 THEN [kind |-> "nan", value |-> 0]
    ELSE IF x[1] = 0 THEN [kind |-> "-inf", value |-> 0]
    ELSE [kind |-> "finite", value |-> LnFix(x[1], x[2])]

(***************************************************************************)
(* hertz_to_mel: mel_high_freq_q * np.log(1.0 + f / mel_break_freq_hertz), *)
(* the frequency f a rational <<n, d>> with f > -mel_break_freq_hertz.     *)
(* The result is in units of 1/LnOne mel.                                  *)
(***************************************************************************)
mel_break_freq_hertz == 700

mel_high_freq_q == 1127

hertz_to_mel(f) ==
    mel_high_freq_q
        * LnFix(f[2] * mel_break_freq_hertz + f[1], f[2] * mel_break_freq_hertz)

(***************************************************************************)
(* __init__ (lines 26-28).  The durations are rationals <<n, d>> seconds.  *)
(***************************************************************************)
\* int(round(sample_rate * seconds))
length_samples(sample_rate, seconds) ==
    RoundHalfEven(sample_rate * seconds[1], seconds[2])

RECURSIVE CeilLog2(_)
\* the least e with 2^e >= n, n >= 1: ceil(log2(n)) in exact arithmetic
CeilLog2(n) == IF n <= 1 THEN 0 ELSE 1 + CeilLog2((n + 1) \div 2)

\* The window lengths below 2^31 at which the IEEE double quotient
\* np.log(n) / np.log(2.0) differs from log2(n) in a way np.ceil sees:
\* log(536870912.0) / log(2.0) = 29.000000000000004.
DoubleLogQuotientAbove == {2 ^ 29}

\* int(np.ceil(np.log(n) / np.log(2.0))), n >= 1
np_ceil_log2(n) ==
    IF n \in DoubleLogQuotientAbove THEN CeilLog2(n) + 1 ELSE CeilLog2(n)

LogMelSpectrogramNp(sample_rate, stft_window_length_seconds, stft_hop_length_seconds, log_offset, num_mel_bins, mel_min_hz, mel_max_hz) ==
    LET window_length_samples ==
            length_samples(sample_rate, stft_window_length_seconds)
    IN  [window_length_samples |-> window_length_samples,
         hop_length_samples |->
             length_samples(sample_rate, stft_hop_length_seconds),
         fft_length |-> 2 ^ np_ceil_log2(window_length_samples),
         log_offset |-> log_offset,
         audio_sample_rate |-> sample_rate,
         num_mel_bins |-> num_mel_bins,
         lower_edge_hertz |-> mel_min_hz,
         upper_edge_hertz |-> mel_max_hz]

(***************************************************************************)
(* frame (lines 110-114).  The result is a view of the waveform's memory:  *)
(* a shape and strides (in samples), no copy.  numpy's as_strided raises   *)
(* ValueError for a negative dimension.                                    *)
(***************************************************************************)
NegativeDimensions == "ValueError: negative dimensions are not allowed"

\* Mutant of num_frames: np.ceil in place of np.floor.
num_frames_ceil(num_samples, window_length, hop_length) ==
    1 - ((window_length - num_samples) \div hop_length)

\* 1 + int(np.floor((num_samples - window_length) / hop_length))
num_frames(num_samples, window_length, hop_length) ==
    1 + ((num_samples - window_length) \div hop_length)

frame(num_samples, window_length, hop_length) ==
    LET n == num_frames(num_samples, window_length, hop_length)
    IN  IF n < 0
        THEN [raised |-> NegativeDimensions, shape |-> <<>>, strides |-> <<>>]
        ELSE [raised |-> "none",
              shape |-> <<n, window_length>>,
              strides |-> <<hop_length, 1>>]

\* the offset in the waveform of element [i][j] of the view
Offset(view, i, j) == i * view.strides[1] + j * view.strides[2]

\* the sample at an offset; a read outside the waveform's memory yields
\* whatever lies there (garbage)
ReadSample(d, off, garbage) ==
    IF off < Len(d) THEN d[off + 1] ELSE garbage

(***************************************************************************)
(* periodic_hann (line 132), in units of 1/4:                              *)
(* 4 * (0.5 - 0.5 * cos(2 pi n / L)) = 2 - 2 cos(2 pi n / L).              *)
(***************************************************************************)
\* 2 cos(2 pi n / L), exact for the L where it is rational
TwoCos(n, L) ==
    CASE L = 1 -> 2
      [] L = 2 -> IF n % 2 = 0 THEN 2 ELSE -2
      [] L = 3 -> IF n % 3 = 0 THEN 2 ELSE -1
      [] L = 4 -> <<2, 0, -2, 0>>[(n % 4) + 1]
      [] L = 6 -> <<2, 1, -1, -2, -1, 1>>[(n % 6) + 1]

periodic_hann(window_length) ==
    [n \in 0 .. window_length - 1 |-> 2 - TwoCos(n, window_length)]

(***************************************************************************)
(* stft_magnitude (lines 86-92): frames * window, np.fft.rfft to           *)
(* fft_length points (zero-padded or cut), np.abs.  Windowed samples and   *)
(* DFT sums are in units of 1/4; a magnitude is rounded down to a multiple *)
(* of 1/(4 MagOne).                                                        *)
(***************************************************************************)
MagOne == 2 ^ 2

\* e^(-2 pi i t / n) for n dividing 4, as <<re, im>>
Twiddle(t, n) == <<<<1, 0>>, <<0, -1>>, <<-1, 0>>, <<0, 1>>>>[((t % n) * (4 \div n)) + 1]

\* Mutant of np_abs: the real part in place of the magnitude.
np_real(z) == MagOne * z[1]

\* np.abs of the complex number <<re, im>>
np_abs(z) == ISqrt(MagOne * MagOne * (z[1] * z[1] + z[2] * z[2]))

\* bin k of np.fft.rfft(x, n), x indexed from 0, its length len
rfft_bin(x, len, n, k) ==
    LET m == Min(len, n)
        re == [j \in 1 .. m |-> x[j - 1] * Twiddle((j - 1) * k, n)[1]]
        im == [j \in 1 .. m |-> x[j - 1] * Twiddle((j - 1) * k, n)[2]]
    IN  <<SumTo(re, m), SumTo(im, m)>>

\* frames * window: row i of the view times the window, reading the samples
windowed_frame(d, view, window, i, garbage) ==
    [j \in 0 .. view.shape[2] - 1 |->
        ReadSample(d, Offset(view, i, j), garbage) * window[j]]

\* the spectrogram: frames x (fft_length / 2 + 1) magnitudes
stft_of_frames(d, view, fft_length, garbage) ==
    LET window == periodic_hann(view.shape[2])
    IN  [i \in 0 .. view.shape[1] - 1 |->
            [k \in 0 .. (fft_length \div 2) |->
                np_abs(rfft_bin(windowed_frame(d, view, window, i, garbage),
                                view.shape[2], fft_length, k))]]

(***************************************************************************)
(* spectrogram_to_mel_matrix (lines 173-209).  Edge frequencies and the    *)
(* sample rate are integers (hertz).  Mel values are fixed-point           *)
(* (hertz_to_mel); from them on the arithmetic is exact: the band edges    *)
(* np.linspace(lo, hi, M + 2)[j] = lo + j (hi - lo) / (M + 1) are kept     *)
(* multiplied by M + 1, so that both slopes of every band are fractions    *)
(* over the same denominator hi - lo.                                      *)
(***************************************************************************)
LowerEdgeNegative == "ValueError: lower_edge_hertz must be >= 0"

EdgesNotOrdered == "ValueError: lower_edge_hertz >= upper_edge_hertz"

UpperEdgeAboveNyquist == "ValueError: upper_edge_hertz is greater than Nyquist"

InvalidRange == {LowerEdgeNegative, EdgesNotOrdered, UpperEdgeAboveNyquist}

\* Mutant of validate_edges: >= in place of > in the Nyquist test.
validate_edges_strict(audio_sample_rate, lower_edge_hertz, upper_edge_hertz) ==
    IF lower_edge_hertz < 0 THEN LowerEdgeNegative
    ELSE IF lower_edge_hertz >= upper_edge_hertz THEN EdgesNotOrdered
    ELSE IF 2 * upper_edge_hertz >= audio_sample_rate THEN UpperEdgeAboveNyquist
    ELSE "none"

\* lines 173-183; nyquist_hertz = audio_sample_rate / 2.0, so that
\* upper_edge_hertz > nyquist_hertz is 2 upper_edge_hertz > audio_sample_rate
validate_edges(audio_sample_rate, lower_edge_hertz, upper_edge_hertz) ==
    IF lower_edge_hertz < 0 THEN LowerEdgeNegative
    ELSE IF lower_edge_hertz >= upper_edge_hertz THEN EdgesNotOrdered
    ELSE IF 2 * upper_edge_hertz > audio_sample_rate THEN UpperEdgeAboveNyquist
    ELSE "none"

\* np.linspace(0.0, nyquist_hertz, num_spectrogram_bins)[k], a rational
spectrogram_bins_hertz(audio_sample_rate, num_spectrogram_bins, k) ==
    IF num_spectrogram_bins = 1 THEN <<0, 1>>
    ELSE <<k * audio_sample_rate, 2 * (num_spectrogram_bins - 1)>>

spectrogram_bins_mel(audio_sample_rate, num_spectrogram_bins, k) ==
    hertz_to_mel(spectrogram_bins_hertz(audio_sample_rate, num_spectrogram_bins, k))

\* (num_mel_bins + 1) * band_edges_mel[j], j in 0 .. num_mel_bins + 1
band_edges_mel(num_mel_bins, lower_edge_hertz, upper_edge_hertz, j) ==
    LET lo == hertz_to_mel(<<lower_edge_hertz, 1>>)
        hi == hertz_to_mel(<<upper_edge_hertz, 1>>)
    IN  (num_mel_bins + 1) * lo + j * (hi - lo)

\* the common denominator of the slopes:
\* (num_mel_bins + 1) * (band_edges_mel[j + 1] - band_edges_mel[j])
slope_denominator(lower_edge_hertz, upper_edge_hertz) ==
    hertz_to_mel(<<upper_edge_hertz, 1>>) - hertz_to_mel(<<lower_edge_hertz, 1>>)

\* the numerator of (spectrogram_bins_mel - lower_edge_mel) / (center_mel - lower_edge_mel)
lower_slope(num_mel_bins, bin_mel, lower_edge_hertz, upper_edge_hertz, i) ==
    (num_mel_bins + 1) * bin_mel
        - band_edges_mel(num_mel_bins, lower_edge_hertz, upper_edge_hertz, i)

\* Mutant of upper_slope: the band's centre taken for its upper edge
\* (band_edges_mel[i : i + 2]).
upper_slope_from_center(num_mel_bins, bin_mel, lower_edge_hertz, upper_edge_hertz, i) ==
    band_edges_mel(num_mel_bins, lower_edge_hertz, upper_edge_hertz, i + 1)
        - (num_mel_bins + 1) * bin_mel

\* the numerator of (upper_edge_mel - spectrogram_bins_mel) / (upper_edge_mel - center_mel)
upper_slope(num_mel_bins, bin_mel, lower_edge_hertz, upper_edge_hertz, i) ==
    band_edges_mel(num_mel_bins, lower_edge_hertz, upper_edge_hertz, i + 2)
        - (num_mel_bins + 1) * bin_mel

\* Mutant of triangle: np.minimum without np.maximum(0.0, ...).
triangle_unclamped(num_mel_bins, bin_mel, lower_edge_hertz, upper_edge_hertz, i) ==
    Min(lower_slope(num_mel_bins, bin_mel, lower_edge_hertz, upper_edge_hertz, i),
        upper_slope(num_mel_bins, bin_mel, lower_edge_hertz, upper_edge_hertz, i))

\* line 205: np.maximum(0.0, np.minimum(lower_slope, upper_slope))
triangle(num_mel_bins, bin_mel, lower_edge_hertz, upper_edge_hertz, i) ==
    Max(0, Min(lower_slope(num_mel_bins, bin_mel, lower_edge_hertz, upper_edge_hertz, i),
               upper_slope(num_mel_bins, bin_mel, lower_edge_hertz, upper_edge_hertz, i)))

\* Mutant of mel_weights_matrix: line 208 assigns 1.0 (the full weight
\* slope_denominator / slope_denominator) to the DC row.
mel_weights_matrix_dc_one(num_mel_bins, num_spectrogram_bins, audio_sample_rate, lower_edge_hertz, upper_edge_hertz) ==
    [k \in 0 .. num_spectrogram_bins - 1 |->
        [i \in 0 .. num_mel_bins - 1 |->
            IF k = 0 THEN slope_denominator(lower_edge_hertz, upper_edge_hertz)
            ELSE triangle(num_mel_bins,
                          spectrogram_bins_mel(audio_sample_rate, num_spectrogram_bins, k),
                          lower_edge_hertz, upper_edge_hertz, i)]]

\* lines 197-208: the loop over the bands, then mel_weights_matrix[0, :] = 0.0
mel_weights_matrix(num_mel_bins, num_spectrogram_bins, audio_sample_rate, lower_edge_hertz, upper_edge_hertz) ==
    [k \in 0 .. num_spectrogram_bins - 1 |->
        [i \in 0 .. num_mel_bins - 1 |->
            IF k = 0 THEN 0
            ELSE triangle(num_mel_bins,
                          spectrogram_bins_mel(audio_sample_rate, num_spectrogram_bins, k),
                          lower_edge_hertz, upper_edge_hertz, i)]]

\* The outcome of a call: the error raised, or the matrix as numerators
\* (weights) over one denominator (den).
spectrogram_to_mel_matrix(num_mel_bins, num_spectrogram_bins, audio_sample_rate, lower_edge_hertz, upper_edge_hertz) ==
    LET err == validate_edges(audio_sample_rate, lower_edge_hertz, upper_edge_hertz)
    IN  IF err # "none"
        THEN [raised |-> err, weights |-> <<>>, den |-> 1]
        ELSE [raised |-> "none",
              weights |-> mel_weights_matrix(num_mel_bins, num_spectrogram_bins,
                              audio_sample_rate, lower_edge_hertz, upper_edge_hertz),
              den |-> slope_denominator(lower_edge_hertz, upper_edge_hertz)]

(***************************************************************************)
(* forward (lines 50-67), one stage at a time.                             *)
(***************************************************************************)
\* np.dot(spectrogram, matrix): frames x num_mel_bins rationals
mel_dot(spectrogram, num_spectrogram_bins, matrix, num_mel_bins) ==
    [f \in DOMAIN spectrogram |->
        [i \in 0 .. num_mel_bins - 1 |->
            <<SumTo([k \in 1 .. num_spectrogram_bins |->
                        spectrogram[f][k - 1] * matrix.weights[k - 1][i]],
                    num_spectrogram_bins),
              4 * MagOne * matrix.den>>]]

\* mel_spectrogram + self.log_offset, element by element
add_offset(mel_spectrogram, log_offset) ==
    [f \in DOMAIN mel_spectrogram |->
        [i \in DOMAIN mel_spectrogram[f] |->
            <<mel_spectrogram[f][i][1] * log_offset[2]
                  + log_offset[1] * mel_spectrogram[f][i][2],
              mel_spectrogram[f][i][2] * log_offset[2]>>]]

\* np.log(mel_spectrogram + self.log_offset)
log_mel(mel_spectrogram, log_offset) ==
    LET arg == add_offset(mel_spectrogram, log_offset)
    IN  [f \in DOMAIN arg |-> [i \in DOMAIN arg[f] |-> np_log(arg[f][i])]]

\* what a forward call returns or raises, run from start to end on the
\* transform t and the waveform d
forward(t, d, garbage) ==
    LET view == frame(Len(d), t.window_length_samples, t.hop_length_samples)
        spectrogram == stft_of_frames(d, view, t.fft_length, garbage)
        bins == (t.fft_length \div 2) + 1
        matrix == spectrogram_to_mel_matrix(t.num_mel_bins, bins,
                      t.audio_sample_rate, t.lower_edge_hertz, t.upper_edge_hertz)
    IN  IF view.raised # "none" THEN [raised |-> view.raised, value |-> <<>>]
        ELSE IF matrix.raised # "none" THEN [raised |-> matrix.raised, value |-> <<>>]
        ELSE [raised |-> "none",
              value |-> log_mel(mel_dot(spectrogram, bins, matrix, t.num_mel_bins),
                                t.log_offset)]

(***************************************************************************)
(* The inputs.                                                             *)
(***************************************************************************)
Samples == {0, 1}

\* the waveforms of at most MaxSamples samples
Waveforms == UNION {[1 .. n -> Samples] : n \in 0 .. MaxSamples}

Calls == {1, 2}

\* before __init__ has run: no field is set
NoTransform == [constructed |-> FALSE]

\* Constructor arguments of the forward specification: a 40 Hz sample rate
\* with windows of 1 to 4 samples and hops of 1 or 2 samples (3/80 s and
\* 1/16 s are the ties 1.5 and 2.5 of round()), the default log_offset 0.01
\* and 0, and mel ranges inside and outside 0 <= low < high <= 20 Hz.
SampleRates == {40}

WindowSeconds == {<<1, 40>>, <<3, 80>>, <<3, 40>>, <<1, 10>>}

HopSeconds == {<<1, 40>>, <<1, 16>>}

LogOffsets == {<<1, 100>>, <<0, 1>>}

MelBins == {1, 2}

MelRanges == {<<0, 20>>, <<5, 15>>, <<15, 5>>, <<5, 25>>, <<-5, 10>>}

IdleCall ==
    [pc |-> "idle", raised |-> "none", view |-> <<>>, frames |-> <<>>,
     spectrogram |-> <<>>, mel_spectrogram |-> <<>>, value |-> <<>>]

NoMelCall == [pc |-> "idle", args |-> <<>>, result |-> <<>>]

Init ==
    /\ self = NoTransform
    /\ data \in Waveforms
    /\ call = [c \in Calls |-> IdleCall]
    /\ melcall = NoMelCall

(***************************************************************************)
(* The operations.                                                         *)
(***************************************************************************)
\* LogMelSpectrogramNp(...): __init__ sets the fields
Construct ==
    /\ self = NoTransform
    /\ \E sr \in SampleRates, w \in WindowSeconds, h \in HopSeconds,
          off \in LogOffsets, m \in MelBins, r \in MelRanges :
          self' = LogMelSpectrogramNp(sr, w, h, off, m, r[1], r[2])
    /\ UNCHANGED <<data, call, melcall>>

\* forward, lines 50-51 and 86: np_data is the tensor's memory, and frame
\* makes the strided view of it or raises
ForwardFrame(c) ==
    /\ self # NoTransform
    /\ call[c].pc = "idle"
    /\ LET view == frame(Len(data), self.window_length_samples,
                         self.hop_length_samples)
       IN  call' = [call EXCEPT ![c] =
               IF view.raised # "none"
               THEN [@ EXCEPT !.pc = "raised", !.raised = view.raised]
               ELSE [@ EXCEPT !.pc = "framed", !.view = view]]
    /\ UNCHANGED <<self, data, melcall>>

\* Mutant of ForwardStft: frames *= window, which multiplies in place
\* through the view and so writes windowed samples into the waveform (the
\* samples of the first frame, rounded down to whole samples).
ForwardStftInPlace(c) ==
    /\ self # NoTransform
    /\ call[c].pc = "framed"
    /\ \E garbage \in Samples :
          LET view == call[c].view
              window == periodic_hann(view.shape[2])
          IN  /\ call' = [call EXCEPT ![c] =
                     [@ EXCEPT !.pc = "stft",
                               !.frames =
                                   [i \in 0 .. view.shape[1] - 1 |->
                                       [j \in 0 .. view.shape[2] - 1 |->
                                           ReadSample(data, Offset(view, i, j), garbage)]],
                               !.spectrogram =
                                   stft_of_frames(data, view, self.fft_length, garbage)]]
              /\ data' = [n \in 1 .. Len(data) |->
                     IF view.shape[1] > 0 /\ n <= view.shape[2]
                     THEN (data[n] * window[n - 1]) \div 4
                     ELSE data[n]]
    /\ UNCHANGED <<self, melcall>>

\* stft_magnitude, lines 90-92: frames * window reads the samples through
\* the view into a new array; then rfft and abs
ForwardStft(c) ==
    /\ self # NoTransform
    /\ call[c].pc = "framed"
    /\ \E garbage \in Samples :
          LET view == call[c].view
          IN  call' = [call EXCEPT ![c] =
                  [@ EXCEPT !.pc = "stft",
                            !.frames =
                                [i \in 0 .. view.shape[1] - 1 |->
                                    [j \in 0 .. view.shape[2] - 1 |->
                                        ReadSample(data, Offset(view, i, j), garbage)]],
                            !.spectrogram =
                                stft_of_frames(data, view, self.fft_length, garbage)]]
    /\ UNCHANGED <<self, data, melcall>>

\* forward, lines 57-66: the filterbank matrix for spectrogram.shape[1]
\* bins, which raises on an invalid range, and the matrix product
ForwardMel(c) ==
    /\ self # NoTransform
    /\ call[c].pc = "stft"
    /\ LET bins == (self.fft_length \div 2) + 1
           matrix == spectrogram_to_mel_matrix(self.num_mel_bins, bins,
                         self.audio_sample_rate, self.lower_edge_hertz,
                         self.upper_edge_hertz)
       IN  call' = [call EXCEPT ![c] =
               IF matrix.raised # "none"
               THEN [@ EXCEPT !.pc = "raised", !.raised = matrix.raised]
               ELSE [@ EXCEPT !.pc = "mel",
                              !.mel_spectrogram =
                                  mel_dot(call[c].spectrogram, bins, matrix,
                                          self.num_mel_bins)]]
    /\ UNCHANGED <<self, data, melcall>>

\* forward, line 67: np.log(mel_spectrogram + self.log_offset) is returned
ForwardLog(c) ==
    /\ self # NoTransform
    /\ call[c].pc = "mel"
    /\ call' = [call EXCEPT ![c] =
           [@ EXCEPT !.pc = "returned",
                     !.value = log_mel(call[c].mel_spectrogram, self.log_offset)]]
    /\ UNCHANGED <<self, data, melcall>>

Next ==
    \/ Construct
    \/ \E c \in Calls : ForwardFrame(c)
    \/ \E c \in Calls : ForwardStft(c)
    \/ \E c \in Calls : ForwardMel(c)
    \/ \E c \in Calls : ForwardLog(c)

Spec == Init /\ [][Next]_vars

(***************************************************************************)
(* spectrogram_to_mel_matrix called on its own.                            *)
(***************************************************************************)
MelCallMelBins == {0, 1, 2, 3}

MelCallSpectrogramBins == {1, 2, 3, 5, 9}

MelCallSampleRates == {40, 41, 5600, 16000}

MelCallEdges == {-5, 0, 5, 20, 700, 2100, 2800, 7500, 8000, 8001}

InitMel ==
    /\ self = NoTransform
    /\ data = <<>>
    /\ call = [c \in Calls |-> IdleCall]
    /\ melcall = NoMelCall

CallMelMatrix ==
    /\ melcall.pc = "idle"
    /\ \E m \in MelCallMelBins, k \in MelCallSpectrogramBins,
          sr \in MelCallSampleRates, lo \in MelCallEdges, hi \in MelCallEdges :
          melcall' =
              [pc |-> "done",
               args |-> [num_mel_bins |-> m, num_spectrogram_bins |-> k,
                         audio_sample_rate |-> sr, lower_edge_hertz |-> lo,
                         upper_edge_hertz |-> hi],
               result |-> spectrogram_to_mel_matrix(m, k, sr, lo, hi)]
    /\ UNCHANGED <<self, data, call>>

NextMel == CallMelMatrix

SpecMel == InitMel /\ [][NextMel]_vars

(***************************************************************************)
(* The constructor on its own, over sample rates and window durations that *)
(* give window lengths of 1 to 64 samples and of 2^27 to 2^29 samples, a   *)
(* hop of one second, and the defaults of lines 18-21.                     *)
(***************************************************************************)
InitSampleRates == 1 .. 32

InitWindowSeconds == {<<1, 4>>, <<1, 2>>, <<1, 1>>, <<3, 2>>, <<2, 1>>}

InitLongSampleRates == {2 ^ 29}

InitLongWindowSeconds == {<<1, 4>>, <<1, 2>>, <<1, 1>>}

InitArgs ==
    {a \in (InitSampleRates \X InitWindowSeconds)
               \cup (InitLongSampleRates \X InitLongWindowSeconds) :
        length_samples(a[1], a[2]) >= 1}

ConstructAny ==
    /\ self = NoTransform
    /\ \E a \in InitArgs :
          self' = LogMelSpectrogramNp(a[1], a[2], <<1, 1>>, <<1, 100>>,
                                      64, 125, 7500)
    /\ UNCHANGED <<data, call, melcall>>

NextInit == ConstructAny

SpecInit == InitMel /\ [][NextInit]_vars

(***************************************************************************)
(* Properties.                                                             *)
(***************************************************************************)
\* the call has a view: frame returned
Framed(c) ==
    \/ call[c].pc \in {"framed", "stft", "mel", "returned"}
    \/ call[c].pc = "raised" /\ call[c].raised \in InvalidRange

\* the call has read its frames: frames * window was computed
FramesRead(c) ==
    \/ call[c].pc \in {"stft", "mel", "returned"}
    \/ call[c].pc = "raised" /\ call[c].raised \in InvalidRange

Ended(c) == call[c].pc \in {"returned", "raised"}

Outcome(c) == [raised |-> call[c].raised, value |-> call[c].value]

\* C1: for N samples, window W >= 1 and hop H >= 1, frame returns exactly
\* 1 + floor((N - W) / H) frames when N >= W and exactly 0 frames, without
\* raising, when N < W (also when N < W - H).  The code raises for N < W - H.
C1_FrameCount ==
    \A c \in Calls :
        call[c].pc # "idle" =>
            LET N == Len(data)
                W == self.window_length_samples
                H == self.hop_length_samples
            IN  /\ Framed(c)
                /\ call[c].view.shape[1] =
                       IF N >= W THEN 1 + ((N - W) \div H) ELSE 0

\* C2: spectrogram_to_mel_matrix raises an InvalidRange ValueError, and
\* returns no matrix, exactly when lower < 0 or lower >= upper or
\* upper > sample_rate / 2; otherwise it returns a matrix of
\* num_spectrogram_bins x num_mel_bins.
C2_InvalidRangeExactly ==
    melcall.pc = "done" =>
        LET a == melcall.args
            r == melcall.result
        IN  /\ r.raised \in InvalidRange \cup {"none"}
            /\ r.raised \in InvalidRange <=>
                   \/ a.lower_edge_hertz < 0
                   \/ a.lower_edge_hertz >= a.upper_edge_hertz
                   \/ 2 * a.upper_edge_hertz > a.audio_sample_rate
            /\ r.raised # "none" => DOMAIN r.weights = {}
            /\ r.raised = "none" =>
                   /\ DOMAIN r.weights = 0 .. a.num_spectrogram_bins - 1
                   /\ \A k \in DOMAIN r.weights :
                          DOMAIN r.weights[k] = 0 .. a.num_mel_bins - 1

\* C2 witness: lower = 7500, upper = 8001, sample_rate = 16000 is rejected
\* for upper > Nyquist.
C2_Witness ==
    /\ melcall.pc = "done"
    /\ melcall.args.lower_edge_hertz = 7500
    /\ melcall.args.upper_edge_hertz = 8001
    /\ melcall.args.audio_sample_rate = 16000
    /\ melcall.result.raised = UpperEdgeAboveNyquist

\* C3: on a transform whose mel range violates
\* 0 <= mel_min_hz < mel_max_hz <= sample_rate / 2, every forward call that
\* ends, for every waveform, ends in an InvalidRange error.  The code ends a
\* call on a waveform of fewer than W - H samples in frame's error.
C3_InvalidRangeRaised ==
    \A c \in Calls :
        (/\ Ended(c)
         /\ validate_edges(self.audio_sample_rate, self.lower_edge_hertz,
                           self.upper_edge_hertz) # "none")
            => call[c].pc = "raised" /\ call[c].raised \in InvalidRange

\* C4: for N >= W there is at least one frame, element j of frame i is the
\* sample at index i * H + j, every such index is below N, and fewer than H
\* samples follow the last frame.
C4_FrameContents ==
    \A c \in Calls :
        (FramesRead(c) /\ Len(data) >= self.window_length_samples) =>
            LET N == Len(data)
                W == self.window_length_samples
                H == self.hop_length_samples
                n == call[c].view.shape[1]
            IN  /\ n >= 1
                /\ DOMAIN call[c].frames = 0 .. n - 1
                /\ \A i \in 0 .. n - 1 :
                       /\ DOMAIN call[c].frames[i] = 0 .. W - 1
                       /\ \A j \in 0 .. W - 1 :
                              /\ Offset(call[c].view, i, j) = i * H + j
                              /\ i * H + j < N
                              /\ call[c].frames[i][j] = data[i * H + j + 1]
                /\ N - ((n - 1) * H + W) \in 0 .. H - 1

\* C4 witness: two frames were read and a sample after the last frame is
\* left out.
C4_Witness ==
    \E c \in Calls :
        /\ FramesRead(c)
        /\ call[c].view.shape[1] >= 2
        /\ Len(data) > (call[c].view.shape[1] - 1) * self.hop_length_samples
                           + self.window_length_samples

\* every element handed to np.log by a returned call is above 0, every mel
\* energy is at least 0, and every element returned is finite
LogArgumentsPositive(c) ==
    LET arg == add_offset(call[c].mel_spectrogram, self.log_offset)
    IN  \A f \in DOMAIN arg : \A i \in DOMAIN arg[f] :
            /\ call[c].mel_spectrogram[f][i][1] >= 0
            /\ call[c].mel_spectrogram[f][i][2] > 0
            /\ arg[f][i][1] > 0
            /\ arg[f][i][2] > 0
            /\ call[c].value[f][i].kind = "finite"

\* C5 as stated: for every accepted configuration and every waveform, each
\* element mel_spectrogram + log_offset is above 0 and no element of the
\* output is NaN or -infinity.  The constructor accepts log_offset = 0.
C5_LogArgumentPositive ==
    \A c \in Calls : call[c].pc = "returned" => LogArgumentsPositive(c)

\* C5 amended: the same for every accepted configuration with
\* log_offset > 0.
C5_LogArgumentPositiveForPositiveOffset ==
    \A c \in Calls :
        (call[c].pc = "returned" /\ self.log_offset[1] > 0)
            => LogArgumentsPositive(c)

\* C5 witness: a call with log_offset > 0 returned an element whose mel
\* energy is 0 and one whose mel energy is above 0.
C5_Witness ==
    \E c \in Calls :
        /\ call[c].pc = "returned"
        /\ self.log_offset[1] > 0
        /\ \E f \in DOMAIN call[c].value : \E i \in DOMAIN call[c].value[f] :
               call[c].mel_spectrogram[f][i][1] = 0
        /\ \E f \in DOMAIN call[c].value : \E i \in DOMAIN call[c].value[f] :
               call[c].mel_spectrogram[f][i][1] > 0

\* spectrogram_to_mel_matrix returned a matrix
MatrixReturned == melcall.pc = "done" /\ melcall.result.raised = "none"

\* (num_mel_bins + 1) * the mel value of spectrogram bin k of the call
BinMel(k) ==
    (melcall.args.num_mel_bins + 1)
        * spectrogram_bins_mel(melcall.args.audio_sample_rate,
                               melcall.args.num_spectrogram_bins, k)

\* (num_mel_bins + 1) * band_edges_mel[j] of the call
EdgeMel(j) ==
    band_edges_mel(melcall.args.num_mel_bins, melcall.args.lower_edge_hertz,
                   melcall.args.upper_edge_hertz, j)

\* C6: in a returned filterbank, for every mel bin i and spectrogram bin
\* k >= 1 the weight is in [0, 1], is 0 when the bin's mel value is at or
\* below band_edges_mel[i] or at or above band_edges_mel[i + 2], and is 1
\* when it equals the centre band_edges_mel[i + 1].
C6_TriangularShape ==
    MatrixReturned =>
        LET r == melcall.result
        IN  /\ r.den > 0
            /\ \A k \in 1 .. melcall.args.num_spectrogram_bins - 1 :
               \A i \in 0 .. melcall.args.num_mel_bins - 1 :
                   /\ 0 <= r.weights[k][i]
                   /\ r.weights[k][i] <= r.den
                   /\ (BinMel(k) <= EdgeMel(i) \/ BinMel(k) >= EdgeMel(i + 2))
                          => r.weights[k][i] = 0
                   /\ BinMel(k) = EdgeMel(i + 1) => r.weights[k][i] = r.den

\* C6 witness: a returned filterbank in which one bin lies on the centre of
\* a band, one inside a band off its centre, and one outside a band.
C6_Witness ==
    /\ MatrixReturned
    /\ \E k \in 1 .. melcall.args.num_spectrogram_bins - 1 :
       \E i \in 0 .. melcall.args.num_mel_bins - 1 :
           BinMel(k) = EdgeMel(i + 1) /\ melcall.result.weights[k][i] = melcall.result.den
    /\ \E k \in 1 .. melcall.args.num_spectrogram_bins - 1 :
       \E i \in 0 .. melcall.args.num_mel_bins - 1 :
           /\ melcall.result.weights[k][i] > 0
           /\ melcall.result.weights[k][i] < melcall.result.den
    /\ \E k \in 1 .. melcall.args.num_spectrogram_bins - 1 :
       \E i \in 0 .. melcall.args.num_mel_bins - 1 :
           BinMel(k) > EdgeMel(i + 2) /\ melcall.result.weights[k][i] = 0

\* C7: every entry of row 0 (the DC bin) of a returned filterbank is 0.
C7_DCRowZero ==
    MatrixReturned =>
        /\ 0 \in DOMAIN melcall.result.weights
        /\ \A i \in 0 .. melcall.args.num_mel_bins - 1 :
               melcall.result.weights[0][i] = 0

\* C7 witness: a filterbank with lower_edge_hertz = 0, several bands and
\* several bins was returned.
C7_Witness ==
    /\ MatrixReturned
    /\ melcall.args.lower_edge_hertz = 0
    /\ melcall.args.num_mel_bins >= 2
    /\ melcall.args.num_spectrogram_bins >= 2

\* the bands with a weight above 0 in row k
NonZeroBands(k) ==
    {i \in 0 .. melcall.args.num_mel_bins - 1 : melcall.result.weights[k][i] > 0}

\* the sum of the weights of row k (a numerator over den)
RowSum(k) ==
    SumTo([i \in 1 .. melcall.args.num_mel_bins |-> melcall.result.weights[k][i - 1]],
          melcall.args.num_mel_bins)

ForwardWritesNothing ==
    /\ self # NoTransform => self' = self
    /\ data' = data

\* every call that ended did so as forward run from start to end does, and
\* as every other call that ended
AsRunAlone ==
    \A c \in Calls :
        Ended(c) =>
            /\ \A garbage \in Samples : Outcome(c) = forward(self, data, garbage)
            /\ \A c2 \in Calls : Ended(c2) => Outcome(c2) = Outcome(c)

\* C8: no step of a forward call writes a field of the transform or a
\* sample of the waveform; every call that ended, however the calls
\* interleaved, ended as a call run alone does, and two calls on the same
\* waveform ended alike.
C8_ForwardStateless == [][ForwardWritesNothing]_vars /\ []AsRunAlone

\* C8 witness: one call returned a spectrogram of two frames while the
\* other call, started on the same waveform, is between its steps.
C8_Witness ==
    /\ call[1].pc = "returned"
    /\ 1 \in DOMAIN call[1].value
    /\ call[2].pc \in {"framed", "stft", "mel"}

RECURSIVE IsPowerOfTwo(_)
\* n is a power of two
IsPowerOfTwo(n) == n = 1 \/ (n > 1 /\ n % 2 = 0 /\ IsPowerOfTwo(n \div 2))

\* C9: for every window length W >= 1 the constructor computes, fft_length
\* is the next power of two >= W: a power of two with
\* W <= fft_length < 2 W.  The code sets fft_length = 2 W for W = 2^29.
C9_NextPowerOfTwo ==
    self # NoTransform =>
        /\ self.window_length_samples >= 1
        /\ IsPowerOfTwo(self.fft_length)
        /\ self.fft_length >= self.window_length_samples
        /\ self.fft_length < 2 * self.window_length_samples

====
